---------------------------- MODULE Spec2Model ----------------------------
(***************************************************************************)
(* The undo/redo history manager of examples/react/src/demo.ts             *)
(* (useHistoryManager): a bounded linear history of diagram snapshots, an  *)
(* index into it and a transaction flag.  Every callback runs to           *)
(* completion before the next one starts, so each callback is one action.  *)
(*                                                                         *)
(* JavaScript arrays are 0-based and TLA+ sequences 1-based: the entry the *)
(* code calls history.current[i] is history[i + 1] here.  currentIndex     *)
(* keeps the code's 0-based value (-1 on the empty history).               *)
(***************************************************************************)
EXTENDS Integers, Sequences, FiniteSets, TLC

VARIABLES
    history,        \* history.current: the stored snapshots           (line 80)
    currentIndex,   \* currentIndex.current, 0-based                   (line 81)
    isTransacting,  \* isTransacting.current                           (line 82)
    nodes,          \* the live node list of the diagram               (line 155)
    edges,          \* the live edge list of the diagram               (line 156)
    isDragging,     \* isDragging.current of FlowComponent             (line 160)
    handler,        \* the last callback of FlowComponent (under SpecHeap: the
                    \* last step of the caller) that ran
    drag,           \* the drag gesture under way, as the callbacks saw it
    last,           \* the last call made on the manager and what it returned
    undone,         \* history and currentIndex before a successful undo, kept
                    \* through the call that immediately follows it
    gesture,        \* the transaction under way since startTransaction
    writes,         \* valid writes since (and with) the last initialize
    undos,          \* successful undos since the last initialize
    heap,           \* SpecHeap: the objects, by address
    store,          \* SpecHeap: history.current as the addresses of its entries
    live,           \* SpecHeap: the addresses of the live node and edge arrays
    got,            \* SpecHeap: what the last query returned, by address
    queries,        \* SpecHeap: getTimeline calls so far
    mutations       \* SpecHeap: in-place writes of the caller so far

\* the objects behind the values, followed under SpecHeap only
mem == <<heap, store, live, got, queries, mutations>>

\* what belongs to the component that uses the manager
app == <<nodes, edges, isDragging, handler, drag, mem>>

vars == <<history, currentIndex, isTransacting, nodes, last, undone, gesture,
          writes, undos, edges, isDragging, handler, drag, heap, store, live,
          got, queries, mutations>>

-----------------------------------------------------------------------------
(* Bounds of the model *)

\* valid addState calls after an initialize, under Spec
MaxPush == 4
\* successful undos after an initialize, under Spec
MaxUndo == 2
\* intermediate updates counted inside one transaction
MaxUpdates == 2
\* valid addState calls after an initialize, under SpecFill
MaxFill == 52
\* successful undos after an initialize, under SpecFill
MaxFillUndo == 1

(* The history cap: .slice(-50) *)
HistoryLimit == 50

-----------------------------------------------------------------------------
(* Diagram states *)

Node(id, x, y) == [id |-> id, position |-> [x |-> x, y |-> y]]

Edge(id, source, target) == [id |-> id, source |-> source, target |-> target]

NodeStart == Node("start", 100, 50)
NodeProcess == Node("process", 400, 200)
\* NodeProcess after one ArrowRight key press (moveStep 5)
NodeProcessMoved == Node("process", 405, 200)
EdgeE1 == Edge("e1", "start", "process")

initialNodes == <<NodeStart, NodeProcess>>
initialEdges == <<EdgeE1>>

\* The states a caller passes under Spec: both sequences present.
ValidStates ==
    { [nodes |-> initialNodes, edges |-> initialEdges],
      [nodes |-> <<NodeStart, NodeProcessMoved>>, edges |-> initialEdges] }

\* A malformed state lacks the node sequence, the edge sequence, or both.
MalformedStates ==
    { [edges |-> initialEdges], [nodes |-> initialNodes], [id |-> "none"] }

\* The k-th state written under SpecFill: one node, at x = k.
FillState(k) == [nodes |-> <<Node("start", k, 50)>>, edges |-> <<>>]

\* The live node lists the diagram moves between.
NodeLists == { initialNodes, <<NodeStart, NodeProcessMoved>> }

-----------------------------------------------------------------------------
(* Pure helpers *)

Min(a, b) == IF a < b THEN a ELSE b
Max(a, b) == IF a > b THEN a ELSE b

\* A relative index of Array.prototype.slice, clamped to 0..len.
RelIndex(i, len) == IF i < 0 THEN Max(len + i, 0) ELSE Min(i, len)

\* s.slice(start, end)
Slice(s, start, end) ==
    LET k == RelIndex(start, Len(s))
        f == RelIndex(end, Len(s))
    IN  IF k >= f THEN <<>> ELSE SubSeq(s, k + 1, f)

\* s.slice(start)
SliceFrom(s, start) == Slice(s, start, Len(s))

\* state.nodes / state.edges is truthy: the field is there (an empty array
\* is truthy too).
Truthy(state, field) == field \in DOMAIN state

\* !state.nodes || !state.edges
Invalid(state) == ~Truthy(state, "nodes") \/ ~Truthy(state, "edges")

\* { ...n }: a new object with the own fields of n.
CopyNode(n) == [f \in DOMAIN n |-> n[f]]

\* ns.map(n => ({ ...n }))
CopyNodes(ns) == [i \in 1..Len(ns) |-> CopyNode(ns[i])]

\* [...es]
CopyEdges(es) == [i \in 1..Len(es) |-> es[i]]

\* The entry stored for a state.
Snapshot(state) ==
    [nodes |-> CopyNodes(state.nodes), edges |-> CopyEdges(state.edges)]


\* a[i] on a JavaScript array: undefined (here the empty sequence) outside
\* 0..length-1, else the element (here a one-element sequence).
At(h, i) == IF i \in 0..(Len(h) - 1) THEN <<h[i + 1]>> ELSE <<>>

\* Written without the cap (the trailing .slice(-50) forgotten).
WrittenUncapped(h, i, state) == Append(Slice(h, 0, i + 1), Snapshot(state))

\* Written without the cut at currentIndex (the redo entries stay).
WrittenKeepsRedo(h, i, state) ==
    SliceFrom(Append(h, Snapshot(state)), -HistoryLimit)

\* Written with the cap taken at the wrong end (.slice(0, 50)).
WrittenKeepOldest(h, i, state) ==
    Slice(Append(Slice(h, 0, i + 1), Snapshot(state)), 0, HistoryLimit)

\* The new history.current of a valid addState: the entries up to the
\* current one, then the snapshot, cut to the last HistoryLimit entries.
Written(h, i, state) ==
    SliceFrom(Append(Slice(h, 0, i + 1), Snapshot(state)), -HistoryLimit)

\* WrittenIndex off by one (history.current.length).
WrittenIndexLength(h) == Len(h)

\* currentIndex.current after a valid addState.
WrittenIndex(h) == Len(h) - 1

\* CanUndo letting undo run at index 0 (>= for >).
CanUndoAtZero(i) == i >= 0

\* The guard of undo.
CanUndo(i) == i > 0

\* CanRedo refusing one entry early (length - 2 for length - 1).
CanRedoShort(h, i) == i < Len(h) - 2

\* CanRedo letting redo run at the last index (<= for <).
CanRedoAtTip(h, i) == i <= Len(h) - 1

\* The guard of redo.
CanRedo(h, i) == i < Len(h) - 1

-----------------------------------------------------------------------------
(* Bookkeeping of the calls: what was called, with what, what came back *)

Null == <<>>

Call(op, arg, result, threw) ==
    [op |-> op, arg |-> arg, result |-> result, threw |-> threw]

NoGesture == [phase |-> "none", history |-> <<>>, currentIndex |-> -1,
              updates |-> 0]

\* No drag under way.
NoDrag == [phase |-> "idle", events |-> 0, starts |-> 0, adds |-> 0,
           clean |-> TRUE, history |-> <<>>, currentIndex |-> -1,
           nodes |-> <<>>]

-----------------------------------------------------------------------------
(* The objects behind the values.  A JavaScript object is reached through  *)
(* a reference; two references to one object see each other's writes.      *)
(* Under SpecHeap the objects are kept by address: a node object holds the *)
(* address of its position, a node array the addresses of its nodes, an    *)
(* entry the addresses of its two arrays.  history stays the sequence of   *)
(* values the manager wrote; store is history.current as it is in memory.  *)
(* Under the other specifications no caller writes into an object in       *)
(* place, values are all there is to see, and the heap is left alone.      *)

\* initialNodes and initialEdges as objects: two positions, two nodes, one
\* node array, one edge array, no entry yet.
InitHeap ==
    [positions |-> <<NodeStart.position, NodeProcess.position>>,
     nodeObjs |-> <<[id |-> NodeStart.id, position |-> 1],
                    [id |-> NodeProcess.id, position |-> 2]>>,
     nodeArrays |-> << <<1, 2>> >>,
     edgeArrays |-> <<initialEdges>>,
     entries |-> <<>>]

\* nodes and edges of FlowComponent: the first node array, the first edge
\* array.
InitLive == [nodes |-> 1, edges |-> 1]

\* No query has returned yet.
NoResult == [op |-> "none", states |-> <<>>]

\* The value of the node object at address a.
DeepNode(hp, a) ==
    [f \in DOMAIN hp.nodeObjs[a] |->
        IF f = "position" THEN hp.positions[hp.nodeObjs[a].position]
                          ELSE hp.nodeObjs[a][f]]

\* The value of the node array at address arr.
DeepNodes(hp, arr) ==
    [i \in 1..Len(hp.nodeArrays[arr]) |-> DeepNode(hp, hp.nodeArrays[arr][i])]

\* The value of a state given by the addresses of its two arrays.
DeepState(hp, s) ==
    [nodes |-> DeepNodes(hp, s.nodes), edges |-> hp.edgeArrays[s.edges]]

\* history.current as values: what the stored entries hold now.
Stored == [k \in 1..Len(store) |-> DeepState(heap, heap.entries[store[k]])]

\* { nodes: s.nodes.map(n => ({ ...n })), edges: [...s.edges] }: a new entry
\* with a new node array of new node objects, each with the fields of the
\* old one (the address of its position among them), and a new edge array.
\* The new entry is the last of entries.
CopyIn(hp, s) ==
    LET arr == hp.nodeArrays[s.nodes]
    IN  [hp EXCEPT
            !.nodeObjs = @ \o [i \in 1..Len(arr) |-> hp.nodeObjs[arr[i]]],
            !.nodeArrays = Append(@, [i \in 1..Len(arr) |->
                                        Len(hp.nodeObjs) + i]),
            !.edgeArrays = Append(@, hp.edgeArrays[s.edges]),
            !.entries = Append(@, [nodes |-> Len(hp.nodeArrays) + 1,
                                   edges |-> Len(hp.edgeArrays) + 1])]

\* The heap after getTimeline copied the first k entries of st.
RECURSIVE CopyAll(_, _, _)
CopyAll(hp, st, k) ==
    IF k = 0 THEN hp
    ELSE CopyIn(CopyAll(hp, st, k - 1), hp.entries[st[k]])

\* Written on addresses: the new history.current with the entry at a.
WrittenRefs(st, i, a) ==
    SliceFrom(Append(Slice(st, 0, i + 1), a), -HistoryLimit)

-----------------------------------------------------------------------------
(* The initial state: the refs as useHistoryManager creates them *)

Init ==
    /\ history = <<>>
    /\ currentIndex = -1
    /\ isTransacting = FALSE
    /\ nodes = initialNodes
    /\ edges = initialEdges
    /\ isDragging = FALSE
    /\ handler = "none"
    /\ drag = NoDrag
    /\ last = Call("none", <<>>, Null, FALSE)
    /\ undone = <<>>
    /\ gesture = NoGesture
    /\ writes = 0
    /\ undos = 0
    /\ heap = InitHeap
    /\ store = <<>>
    /\ live = InitLive
    /\ got = NoResult
    /\ queries = 0
    /\ mutations = 0

-----------------------------------------------------------------------------
(* The operations of the manager.  Each says what the call does to the     *)
(* manager (and to the bookkeeping of the calls); what the caller does to  *)
(* the diagram around the call is said where the call is made.             *)

\* addStateBody cutting the entries after currentIndex before it looks at
\* the state.
addStateBodyCutsFirst(state) ==
    IF Invalid(state)
    THEN /\ history' = Slice(history, 0, currentIndex + 1)
         /\ UNCHANGED <<currentIndex, writes>>
    ELSE /\ history' = Written(history, currentIndex, state)
         /\ currentIndex' = WrittenIndex(history')
         /\ writes' = writes + 1

\* The body of addState: the guard, the write and the index.
addStateBody(state) ==
    IF Invalid(state)
    THEN UNCHANGED <<history, currentIndex, writes>>
    ELSE /\ history' = Written(history, currentIndex, state)
         /\ currentIndex' = WrittenIndex(history')
         /\ writes' = writes + 1

addState(state) ==
    /\ addStateBody(state)
    /\ last' = Call("addState", <<state>>, Null, FALSE)
    /\ undone' = <<>>
    /\ gesture' = NoGesture
    /\ UNCHANGED <<isTransacting, undos>>

\* initialize leaving currentIndex where it was.
initializeKeepsIndex(initialState) ==
    /\ IF Invalid(initialState)
       THEN /\ last' = Call("initialize", <<initialState>>, Null, TRUE)
            /\ UNCHANGED <<history, writes, undos>>
       ELSE /\ history' = <<Snapshot(initialState)>>
            /\ writes' = 1
            /\ undos' = 0
            /\ last' = Call("initialize", <<initialState>>, Null, FALSE)
    /\ undone' = <<>>
    /\ gesture' = NoGesture
    /\ UNCHANGED <<isTransacting, currentIndex>>

\* initialState.nodes.map and [...initialState.edges] throw a TypeError on an
\* absent sequence, before anything is assigned.
initialize(initialState) ==
    /\ IF Invalid(initialState)
       THEN /\ last' = Call("initialize", <<initialState>>, Null, TRUE)
            /\ UNCHANGED <<history, currentIndex, writes, undos>>
       ELSE /\ history' = <<Snapshot(initialState)>>
            /\ currentIndex' = 0
            /\ writes' = 1
            /\ undos' = 0
            /\ last' = Call("initialize", <<initialState>>, Null, FALSE)
    /\ undone' = <<>>
    /\ gesture' = NoGesture
    /\ UNCHANGED isTransacting

\* undo dropping the entry it steps back from (a pop).
undoPops ==
    /\ IF CanUndo(currentIndex)
       THEN /\ currentIndex' = currentIndex - 1
            /\ history' = Slice(history, 0, currentIndex)
            /\ last' = Call("undo", <<>>, At(history, currentIndex'), FALSE)
            /\ undone' = <<[history |-> history, currentIndex |-> currentIndex]>>
            /\ undos' = undos + 1
       ELSE /\ last' = Call("undo", <<>>, Null, FALSE)
            /\ undone' = <<>>
            /\ UNCHANGED <<history, currentIndex, undos>>
    /\ gesture' = NoGesture
    /\ UNCHANGED <<isTransacting, writes>>

\* undo refusing to move while a transaction is open.
undoOutsideTransaction ==
    /\ IF CanUndo(currentIndex) /\ ~isTransacting
       THEN /\ currentIndex' = currentIndex - 1
            /\ last' = Call("undo", <<>>, At(history, currentIndex'), FALSE)
            /\ undone' = <<[history |-> history, currentIndex |-> currentIndex]>>
            /\ undos' = undos + 1
       ELSE /\ last' = Call("undo", <<>>, Null, FALSE)
            /\ undone' = <<>>
            /\ UNCHANGED <<currentIndex, undos>>
    /\ gesture' = NoGesture
    /\ UNCHANGED <<history, isTransacting, writes>>

undo ==
    /\ IF CanUndo(currentIndex)
       THEN /\ currentIndex' = currentIndex - 1
            /\ last' = Call("undo", <<>>, At(history, currentIndex'), FALSE)
            /\ undone' = <<[history |-> history, currentIndex |-> currentIndex]>>
            /\ undos' = undos + 1
       ELSE /\ last' = Call("undo", <<>>, Null, FALSE)
            /\ undone' = <<>>
            /\ UNCHANGED <<currentIndex, undos>>
    /\ gesture' = NoGesture
    /\ UNCHANGED <<history, isTransacting, writes>>

redo ==
    /\ IF CanRedo(history, currentIndex)
       THEN /\ currentIndex' = currentIndex + 1
            /\ last' = Call("redo", <<>>, At(history, currentIndex'), FALSE)
       ELSE /\ last' = Call("redo", <<>>, Null, FALSE)
            /\ UNCHANGED currentIndex
    /\ undone' = IF last.op = "undo" THEN undone ELSE <<>>
    /\ gesture' = NoGesture
    /\ UNCHANGED <<history, isTransacting, writes, undos>>

\* startTransaction leaving the flag as it is.
startTransactionNoFlag ==
    /\ UNCHANGED isTransacting
    /\ last' = Call("startTransaction", <<>>, Null, FALSE)
    /\ undone' = <<>>
    /\ gesture' = [phase |-> "open", history |-> history,
                   currentIndex |-> currentIndex, updates |-> 0]
    /\ UNCHANGED <<history, currentIndex, writes, undos>>

startTransaction ==
    /\ isTransacting' = TRUE
    /\ last' = Call("startTransaction", <<>>, Null, FALSE)
    /\ undone' = <<>>
    /\ gesture' = [phase |-> "open", history |-> history,
                   currentIndex |-> currentIndex, updates |-> 0]
    /\ UNCHANGED <<history, currentIndex, writes, undos>>

\* endTransaction without its addState call.
endTransactionNoWrite(state) ==
    /\ isTransacting' = FALSE
    /\ last' = Call("endTransaction", <<state>>, Null, FALSE)
    /\ undone' = <<>>
    /\ gesture' = IF gesture.phase = "open"
                  THEN [gesture EXCEPT !.phase = "ended"]
                  ELSE NoGesture
    /\ UNCHANGED <<history, currentIndex, writes, undos>>

endTransaction(state) ==
    /\ isTransacting' = FALSE
    /\ addStateBody(state)
    /\ last' = Call("endTransaction", <<state>>, Null, FALSE)
    /\ undone' = <<>>
    /\ gesture' = IF gesture.phase = "open"
                  THEN [gesture EXCEPT !.phase = "ended"]
                  ELSE NoGesture
    /\ UNCHANGED undos

\* An update of the live diagram that calls nothing on the manager: the
\* position changes of a drag, applied by onNodesChange.
onNodesChange(ns) ==
    /\ ns # nodes
    /\ nodes' = ns
    /\ gesture' = IF gesture.phase = "open"
                  THEN [gesture EXCEPT !.updates = Min(@ + 1, MaxUpdates)]
                  ELSE gesture
    /\ UNCHANGED <<history, currentIndex, isTransacting, last, undone, writes,
                   undos>>

-----------------------------------------------------------------------------
(* Spec: any state a caller may pass, short histories *)

Next ==
    \/ \E state \in ValidStates :
          /\ writes < MaxPush
          /\ addState(state)
          /\ UNCHANGED app
    \/ \E state \in MalformedStates : addState(state) /\ UNCHANGED app
    \/ \E state \in ValidStates \cup MalformedStates :
          initialize(state) /\ UNCHANGED app
    \/ (CanUndo(currentIndex) => undos < MaxUndo) /\ undo /\ UNCHANGED app
    \/ redo /\ UNCHANGED app
    \/ startTransaction /\ UNCHANGED app
    \/ \E state \in ValidStates :
          /\ writes < MaxPush
          /\ endTransaction(state)
          /\ UNCHANGED app
    \/ \E state \in MalformedStates : endTransaction(state) /\ UNCHANGED app
    \/ \E ns \in NodeLists :
          onNodesChange(ns)
             /\ UNCHANGED <<edges, isDragging, handler, drag, mem>>

Spec == Init /\ [][Next]_vars

(* SpecFill: one distinct state per write, histories past the cap *)

NextFill ==
    \/ /\ writes < MaxFill
       /\ addState(FillState(writes + 1))
       /\ UNCHANGED app
    \/ addState([edges |-> <<>>]) /\ UNCHANGED app
    \/ initialize(FillState(1)) /\ UNCHANGED app
    \/ (CanUndo(currentIndex) => undos < MaxFillUndo) /\ undo /\ UNCHANGED app
    \/ redo /\ UNCHANGED app
    \/ startTransaction /\ UNCHANGED app
    \/ /\ writes < MaxFill
       /\ endTransaction(FillState(writes + 1))
       /\ UNCHANGED app

SpecFill == Init /\ [][NextFill]_vars

-----------------------------------------------------------------------------
(* FlowComponent: the callbacks that call the manager.  A callback sees   *)
(* the nodes and edges of the render it was created in: the values before  *)
(* the step, whatever it sets in the step.                                 *)

\* valid addState calls after the mount, under SpecFlow and SpecLost
MaxFlowPush == 3

\* node.selected is truthy
Selected(n) == "selected" \in DOMAIN n /\ n.selected

\* One change applied to the node list, as onNodesChange applies it.
ApplyNodeChange(c, ns) ==
    [i \in 1..Len(ns) |->
        IF ns[i].id # c.id THEN ns[i]
        ELSE IF c.type = "position"
             THEN [f \in DOMAIN ns[i] |->
                     IF f = "position" THEN c.position ELSE ns[i][f]]
             ELSE [f \in DOMAIN ns[i] \cup {"selected"} |->
                     IF f = "selected" THEN c.selected ELSE ns[i][f]]]

RECURSIVE ApplyNodeChanges(_, _)
ApplyNodeChanges(changes, ns) ==
    IF changes = <<>> THEN ns
    ELSE ApplyNodeChanges(Tail(changes), ApplyNodeChange(Head(changes), ns))

\* One change applied to the edge list, as onEdgesChange applies it.
ApplyEdgeChange(c, es) ==
    IF c.type = "remove"
    THEN LET Kept(e) == e.id # c.id IN SelectSeq(es, Kept)
    ELSE [i \in 1..Len(es) |->
            IF es[i].id # c.id THEN es[i]
            ELSE [f \in DOMAIN es[i] \cup {"selected"} |->
                    IF f = "selected" THEN c.selected ELSE es[i][f]]]

RECURSIVE ApplyEdgeChanges(_, _)
ApplyEdgeChanges(changes, es) ==
    IF changes = <<>> THEN es
    ELSE ApplyEdgeChanges(Tail(changes), ApplyEdgeChange(Head(changes), es))

\* changes.some(c => c.type === 'position' && c.dragging)
Dragging(changes) ==
    \E k \in 1..Len(changes) :
        changes[k].type = "position" /\ changes[k].dragging

ArrowKeys == {"ArrowUp", "ArrowDown", "ArrowLeft", "ArrowRight"}

\* e.shiftKey ? 20 : 5
MoveStep(e) == IF e.shiftKey THEN 20 ELSE 5

\* The nodes after an arrow key: the selected ones moved by the step.
UpdatedNodes(e, ns) ==
    [i \in 1..Len(ns) |->
        IF ~Selected(ns[i]) THEN ns[i]
        ELSE [f \in DOMAIN ns[i] |->
                IF f # "position" THEN ns[i][f]
                ELSE [x |-> ns[i].position.x
                              + (IF e.key = "ArrowLeft" THEN -MoveStep(e)
                                 ELSE IF e.key = "ArrowRight" THEN MoveStep(e)
                                 ELSE 0),
                      y |-> ns[i].position.y
                              + (IF e.key = "ArrowUp" THEN -MoveStep(e)
                                 ELSE IF e.key = "ArrowDown" THEN MoveStep(e)
                                 ELSE 0)]]]

\* The gesture of the manager's bookkeeping after an update of the diagram.
Updated(g) ==
    IF g.phase = "open" THEN [g EXCEPT !.updates = Min(@ + 1, MaxUpdates)]
                        ELSE g

\* The drag after a callback that is no part of a drag gesture called the
\* manager: a gesture under way is no longer followed.
Disturbed(d) ==
    IF d.phase \in {"dragging", "lost"}
    THEN [NoDrag EXCEPT !.phase = d.phase, !.clean = FALSE]
    ELSE NoDrag

\* The effect on mount: history.initialize, setNodes, setEdges.
mount ==
    /\ handler = "none"
    /\ initialize([nodes |-> nodes, edges |-> edges])
    /\ nodes' = initialNodes
    /\ edges' = initialEdges
    /\ handler' = "mount"
    /\ UNCHANGED <<isDragging, drag>>

\* The drag after handleNodesChange ran with these changes: it called
\* startTransaction or not (started), and left the nodes ns.
Dragged(d, changes, started, ns) ==
    IF d.phase = "lost" THEN d
    ELSE IF d.phase = "dragging"
    THEN [d EXCEPT !.events = Min(@ + (IF Dragging(changes) THEN 1 ELSE 0),
                                  MaxUpdates),
                   !.starts = Min(@ + (IF started THEN 1 ELSE 0), MaxUpdates),
                   !.nodes = ns]
    ELSE IF Dragging(changes)
    THEN [phase |-> "dragging", events |-> 1,
          starts |-> IF started THEN 1 ELSE 0, adds |-> 0, clean |-> TRUE,
          history |-> history, currentIndex |-> currentIndex, nodes |-> ns]
    ELSE d

\* handleNodesChange calling startTransaction on every event of a drag
\* (without the test of isDragging).
handleNodesChangeStartsEach(changes) ==
    /\ IF Dragging(changes)
       THEN /\ startTransaction
            /\ isDragging' = TRUE
       ELSE /\ gesture' = Updated(gesture)
            /\ UNCHANGED <<history, currentIndex, isTransacting, last, undone,
                           writes, undos, isDragging>>
    /\ nodes' = ApplyNodeChanges(changes, nodes)
    /\ handler' = "handleNodesChange"
    /\ drag' = Dragged(drag, changes, Dragging(changes), nodes')
    /\ UNCHANGED edges

handleNodesChange(changes) ==
    /\ IF Dragging(changes) /\ ~isDragging
       THEN /\ startTransaction
            /\ isDragging' = TRUE
       ELSE /\ gesture' = Updated(gesture)
            /\ UNCHANGED <<history, currentIndex, isTransacting, last, undone,
                           writes, undos, isDragging>>
    /\ nodes' = ApplyNodeChanges(changes, nodes)
    /\ handler' = "handleNodesChange"
    /\ drag' = Dragged(drag, changes, Dragging(changes) /\ ~isDragging, nodes')
    /\ UNCHANGED edges

handleDragEnd ==
    /\ IF isDragging
       THEN /\ endTransaction([nodes |-> nodes, edges |-> edges])
            /\ isDragging' = FALSE
       ELSE UNCHANGED <<history, currentIndex, isTransacting, last, undone,
                        gesture, writes, undos, isDragging>>
    /\ handler' = "handleDragEnd"
    /\ drag' = IF drag.phase = "dragging"
               THEN [drag EXCEPT !.phase = "stopped",
                                 !.adds = @ + (IF isDragging THEN 1 ELSE 0)]
               ELSE Disturbed(drag)
    /\ UNCHANGED <<nodes, edges>>

handleEdgesChange(changes) ==
    /\ edges' = ApplyEdgeChanges(changes, edges)
    /\ addState([nodes |-> nodes, edges |-> edges])
    /\ handler' = "handleEdgesChange"
    /\ drag' = Disturbed(drag)
    /\ UNCHANGED <<nodes, isDragging>>

\* The body of handleHistory: the call, then setNodes and setEdges when it
\* returned a state.
handleHistoryBody(action) ==
    /\ IF action = "undo" THEN undo ELSE redo
    /\ IF last'.result # Null
       THEN /\ nodes' = CopyNodes(last'.result[1].nodes)
            /\ edges' = CopyEdges(last'.result[1].edges)
       ELSE UNCHANGED <<nodes, edges>>
    /\ drag' = Disturbed(drag)
    /\ UNCHANGED isDragging

\* A click on the Undo or the Redo button.
handleHistory(action) ==
    /\ handleHistoryBody(action)
    /\ handler' = "handleHistory"

handleKeyDown(e) ==
    /\ IF (e.ctrlKey \/ e.metaKey) /\ e.key = "z"
       THEN handleHistoryBody("undo")
       ELSE IF (e.ctrlKey \/ e.metaKey) /\ e.key = "y"
       THEN handleHistoryBody("redo")
       ELSE IF e.key \in ArrowKeys
       THEN /\ nodes' = UpdatedNodes(e, nodes)
            /\ addState([nodes |-> UpdatedNodes(e, nodes), edges |-> edges])
            /\ drag' = Disturbed(drag)
            /\ UNCHANGED <<edges, isDragging>>
       ELSE UNCHANGED <<history, currentIndex, isTransacting, last, undone,
                        gesture, writes, undos, nodes, edges, isDragging, drag>>
    /\ handler' = "handleKeyDown"

\* The node changes that arrive: two moves of a drag of the process node,
\* its last position change (dragging off), its selection.
NodeChanges ==
    { <<[type |-> "position", id |-> "process", dragging |-> TRUE,
         position |-> [x |-> 300, y |-> 220]]>>,
      <<[type |-> "position", id |-> "process", dragging |-> TRUE,
         position |-> [x |-> 450, y |-> 250]]>>,
      <<[type |-> "position", id |-> "process", dragging |-> FALSE,
         position |-> [x |-> 450, y |-> 250]]>>,
      <<[type |-> "select", id |-> "process", selected |-> TRUE]>> }

\* The edge changes that arrive: e1 removed.
EdgeChanges == { <<[type |-> "remove", id |-> "e1"]>> }

Key(key, ctrl, shift) ==
    [key |-> key, ctrlKey |-> ctrl, metaKey |-> FALSE, shiftKey |-> shift]

\* The keys that are pressed.
KeyEvents ==
    { Key("z", TRUE, FALSE), Key("y", TRUE, FALSE),
      Key("ArrowRight", FALSE, FALSE), Key("ArrowDown", FALSE, TRUE) }

\* The key writes a snapshot.
Writes(e) == e.key \in ArrowKeys

\* The key calls undo.
Undoes(e) == (e.ctrlKey \/ e.metaKey) /\ e.key = "z"

(* SpecFlow: the component, every drag stop delivered *)

NextFlow ==
    \/ mount /\ UNCHANGED mem
    \/ /\ handler # "none"
       /\ \E changes \in NodeChanges : handleNodesChange(changes)
       /\ UNCHANGED mem
    \/ /\ handler # "none"
       /\ isDragging => writes < MaxFlowPush
       /\ handleDragEnd
       /\ UNCHANGED mem
    \/ /\ handler # "none"
       /\ writes < MaxFlowPush
       /\ \E changes \in EdgeChanges : handleEdgesChange(changes)
       /\ UNCHANGED mem
    \/ /\ handler # "none"
       /\ \E action \in {"undo", "redo"} :
             /\ (action = "undo" /\ CanUndo(currentIndex)) => undos < MaxUndo
             /\ handleHistory(action)
       /\ UNCHANGED mem
    \/ /\ handler # "none"
       /\ \E e \in KeyEvents :
             /\ Writes(e) => writes < MaxFlowPush
             /\ (Undoes(e) /\ CanUndo(currentIndex)) => undos < MaxUndo
             /\ handleKeyDown(e)
       /\ UNCHANGED mem

SpecFlow == Init /\ [][NextFlow]_vars

(* SpecLost: the component, a drag stop may be lost *)

\* The drag ends and onNodeDragStop is not called: handleDragEnd does not
\* run for this drag.
dragStopLost ==
    /\ isDragging
    /\ drag.phase = "dragging"
    /\ drag' = [drag EXCEPT !.phase = "lost"]
    /\ UNCHANGED <<history, currentIndex, isTransacting, last, undone, gesture,
                   writes, undos, nodes, edges, isDragging, handler, mem>>

NextLost ==
    \/ NextFlow
    \/ dragStopLost

SpecLost == Init /\ [][NextLost]_vars

-----------------------------------------------------------------------------
(* SpecHeap: the manager and a caller that holds references.  The caller   *)
(* passes its live arrays to initialize and addState, asks for the current *)
(* state and the timeline, and writes into the objects it holds.           *)

\* initialize and valid addState calls, under SpecHeap
MaxHeapPush == 2
\* getTimeline calls, under SpecHeap
MaxQueries == 1
\* in-place writes of the caller, under SpecHeap
MaxMutations == 2

\* The x a caller writes into a position.
DraggedX == 450

\* What no step of the caller changes.
idle == <<isTransacting, isDragging, drag, edges>>

\* One more in-place write.
Mutated == mutations < MaxMutations /\ mutations' = mutations + 1

\* history.initialize({ nodes, edges }) with the live arrays.
initializeRefs ==
    /\ initialize(DeepState(heap, live))
    /\ heap' = CopyIn(heap, live)
    /\ store' = <<Len(heap.entries) + 1>>
    /\ handler' = "initialize"
    /\ UNCHANGED <<nodes, edges, isDragging, drag, live, got, queries, mutations>>

\* history.addState({ nodes, edges }) with the live arrays.
addStateRefs ==
    /\ addState(DeepState(heap, live))
    /\ heap' = CopyIn(heap, live)
    /\ store' = WrittenRefs(store, currentIndex, Len(heap.entries) + 1)
    /\ handler' = "addState"
    /\ UNCHANGED <<nodes, edges, isDragging, drag, live, got, queries, mutations>>

\* getCurrentState: history.current[currentIndex.current], the entry itself.
getCurrentState ==
    /\ got' = [op |-> "getCurrentState", states |-> At(store, currentIndex)]
    /\ handler' = "getCurrentState"
    /\ UNCHANGED <<history, currentIndex, last, undone, gesture, writes, undos,
                   nodes, heap, store, live, queries, mutations, idle>>

\* getTimeline: one item per entry, its state a copy made as addState makes
\* one.  (id and active are numbers and booleans, not followed here.)
getTimeline ==
    /\ heap' = CopyAll(heap, store, Len(store))
    /\ got' = [op |-> "getTimeline",
               states |-> [k \in 1..Len(store) |-> Len(heap.entries) + k]]
    /\ queries' = queries + 1
    /\ handler' = "getTimeline"
    /\ UNCHANGED <<history, currentIndex, last, undone, gesture, writes, undos,
                   nodes, store, live, mutations, idle>>

\* nodes[i].selected = true: a top-level field of a live node, in place.
mutateNodeField(i) ==
    LET a == heap.nodeArrays[live.nodes][i]
    IN  /\ ~Selected(heap.nodeObjs[a])
        /\ heap' = [heap EXCEPT !.nodeObjs[a] =
                       [f \in DOMAIN @ \cup {"selected"} |->
                           IF f = "selected" THEN TRUE ELSE @[f]]]
        /\ nodes' = DeepNodes(heap', live.nodes)
        /\ handler' = "mutateNodeField"
        /\ Mutated
        /\ UNCHANGED <<history, currentIndex, last, undone, gesture, writes,
                       undos, store, live, got, queries, idle>>

\* nodes[i].position.x = DraggedX: the nested position of a live node, in
\* place.
mutateNodePosition(i) ==
    LET p == heap.nodeObjs[heap.nodeArrays[live.nodes][i]].position
    IN  /\ heap.positions[p].x # DraggedX
        /\ heap' = [heap EXCEPT !.positions[p].x = DraggedX]
        /\ nodes' = DeepNodes(heap', live.nodes)
        /\ handler' = "mutateNodePosition"
        /\ Mutated
        /\ UNCHANGED <<history, currentIndex, last, undone, gesture, writes,
                       undos, store, live, got, queries, idle>>

\* returned.nodes = nodes: a field of the k-th returned snapshot, in place.
mutateReturned(k) ==
    LET a == got.states[k]
    IN  /\ heap.entries[a].nodes # live.nodes
        /\ heap' = [heap EXCEPT !.entries[a].nodes = live.nodes]
        /\ handler' = "mutateReturned"
        /\ Mutated
        /\ UNCHANGED <<history, currentIndex, last, undone, gesture, writes,
                       undos, nodes, store, live, got, queries, idle>>

\* returned.nodes.pop(): the node list of the k-th returned snapshot, in
\* place.
mutateReturnedList(k) ==
    LET arr == heap.entries[got.states[k]].nodes
    IN  /\ heap.nodeArrays[arr] # <<>>
        /\ heap' = [heap EXCEPT !.nodeArrays[arr] = SubSeq(@, 1, Len(@) - 1)]
        /\ nodes' = DeepNodes(heap', live.nodes)
        /\ handler' = "mutateReturnedList"
        /\ Mutated
        /\ UNCHANGED <<history, currentIndex, last, undone, gesture, writes,
                       undos, store, live, got, queries, idle>>

NextHeap ==
    \/ /\ store = <<>>
       /\ initializeRefs
    \/ /\ writes < MaxHeapPush
       /\ addStateRefs
    \/ /\ CanUndo(currentIndex) => undos < MaxUndo
       /\ undo
       /\ handler' = "undo"
       /\ UNCHANGED <<nodes, edges, isDragging, drag, mem>>
    \/ /\ redo
       /\ handler' = "redo"
       /\ UNCHANGED <<nodes, edges, isDragging, drag, mem>>
    \/ getCurrentState
    \/ /\ queries < MaxQueries
       /\ getTimeline
    \/ \E i \in 1..Len(heap.nodeArrays[live.nodes]) : mutateNodeField(i)
    \/ \E i \in 1..Len(heap.nodeArrays[live.nodes]) : mutateNodePosition(i)
    \/ \E k \in 1..Len(got.states) : mutateReturned(k)
    \/ \E k \in 1..Len(got.states) : mutateReturnedList(k)

SpecHeap == Init /\ [][NextHeap]_vars

-----------------------------------------------------------------------------
(* Helpers of the properties *)

\* Under SpecFill the k-th write since the last initialize is made with
\* FillState(k): the snapshots pushed so far, in push order.
pushed == [k \in 1..writes |-> Snapshot(FillState(k))]

\* The last n elements of s (all of s when it is shorter).
LastOf(s, n) == IF Len(s) <= n THEN s ELSE SubSeq(s, Len(s) - n + 1, Len(s))

\* The state the call of this step was made with.
Passed == last'.arg[1]

\* The step is a valid write: addState or endTransaction with a state that
\* has both sequences.
ValidWrite ==
    /\ last'.op \in {"addState", "endTransaction"}
    /\ ~Invalid(Passed)
    /\ addState(Passed) \/ endTransaction(Passed)

\* The last call was a write with a valid state.
WroteValid ==
    /\ last.op \in {"addState", "endTransaction"}
    /\ ~Invalid(last.arg[1])

-----------------------------------------------------------------------------
(* C1: whenever the history is non-empty, 0 <= currentIndex <              *)
(* history.length, after any sequence of initialize, addState (valid or    *)
(* malformed), undo, redo, startTransaction and endTransaction.            *)
C1_IndexInRange ==
    Len(history) > 0 => (0 <= currentIndex /\ currentIndex < Len(history))

\* a full history, one step back from its tip after an undo
C1_Witness ==
    /\ Len(history) = HistoryLimit
    /\ currentIndex = HistoryLimit - 2
    /\ last.op = "undo"

(* C2: the history never holds more than 50 entries.                       *)
C2_LengthBounded == Len(history) <= HistoryLimit

\* more than 50 writes have been made and the history is full
C2_Witness ==
    /\ writes > HistoryLimit
    /\ Len(history) = HistoryLimit
    /\ WroteValid

(* C4, as claimed: a valid addState that would make the history longer     *)
(* than 50 leaves exactly the 50 most recent pushes, in push order, and    *)
(* currentIndex at the entry just written.                                 *)
C4_MostRecentPushes ==
    [][(ValidWrite /\ currentIndex + 2 > HistoryLimit)
       => /\ history' = LastOf(pushed', HistoryLimit)
          /\ currentIndex' = Len(history') - 1]_vars

(* C4, amended: a valid addState that would make the history longer than   *)
(* 50 drops entries from the front only: the result is the last 50 of the  *)
(* entries kept up to currentIndex followed by the new snapshot, the       *)
(* dropped entry is no longer in the history, currentIndex is at the entry *)
(* just written; and when no undo came between the pushes these are        *)
(* exactly the 50 most recent pushes.                                      *)
C4_TrailingWindow ==
    [][(ValidWrite /\ currentIndex + 2 > HistoryLimit)
       => /\ Len(history') = HistoryLimit
          /\ history' = LastOf(Append(SubSeq(history, 1, currentIndex + 1),
                                      Passed), HistoryLimit)
          /\ \A k \in 1..Len(history') : history'[k] # history[1]
          /\ currentIndex' = HistoryLimit - 1
          /\ history'[currentIndex' + 1] = Passed
          /\ (undos' = 0 => history' = LastOf(pushed', HistoryLimit))]_vars

\* a write has overflowed the cap, after an undo discarded a recent push
C4_Witness ==
    /\ WroteValid
    /\ writes > HistoryLimit
    /\ Len(history) = HistoryLimit
    /\ currentIndex = HistoryLimit - 1
    /\ undos > 0
    /\ history # LastOf(pushed, HistoryLimit)

(* C5: after every addState call of a sequence of addState calls,          *)
(* currentIndex = historyLength - 1: after a valid one whatever came       *)
(* before, and after any one (valid or malformed) when no undo has moved   *)
(* the index.                                                              *)
C5_IndexAtTip ==
    /\ WroteValid => currentIndex = Len(history) - 1
    /\ undos = 0 => currentIndex = Len(history) - 1

\* a valid addState has just written past the cap
C5_Witness ==
    /\ last.op = "addState"
    /\ ~Invalid(last.arg[1])
    /\ writes > HistoryLimit
    /\ currentIndex = HistoryLimit - 1

(* C3: a valid addState(X) at currentIndex = i below the tip discards      *)
(* every entry after i, keeps entries 0..i unchanged and in order, appends *)
(* a copy of X, and leaves historyLength = i + 2 and currentIndex = i + 1. *)
C3_TruncateOnWrite ==
    [][(ValidWrite /\ currentIndex < Len(history) - 1)
       => /\ Len(history') = currentIndex + 2
          /\ currentIndex' = currentIndex + 1
          /\ SubSeq(history', 1, currentIndex + 1)
                = SubSeq(history, 1, currentIndex + 1)
          /\ history'[currentIndex + 2] = Passed]_vars

\* three entries, two undos, then addState(X): the history is [entry0, X]
C3_Witness ==
    /\ last.op = "addState"
    /\ ~Invalid(last.arg[1])
    /\ writes = 4
    /\ undos = 2
    /\ Len(history) = 2
    /\ currentIndex = 1
    /\ history[2] = last.arg[1]
    /\ history[1] # history[2]

(* C6: where undo succeeds, undo followed immediately by redo returns the  *)
(* snapshot that was current before the undo and restores currentIndex,    *)
(* the history length and its contents; the undo in between returns the    *)
(* entry before it.                                                        *)
C6_UndoRedoRoundTrip ==
    /\ (last.op = "undo" /\ undone # <<>>)
       => /\ last.result = <<undone[1].history[undone[1].currentIndex]>>
          /\ currentIndex = undone[1].currentIndex - 1
    /\ (last.op = "redo" /\ undone # <<>>)
       => /\ last.result = <<undone[1].history[undone[1].currentIndex + 1]>>
          /\ currentIndex = undone[1].currentIndex
          /\ history = undone[1].history

\* initialize(S0), addState(S1), undo, redo: redo returns S1
C6_Witness ==
    /\ last.op = "redo"
    /\ undone # <<>>
    /\ Len(history) = 2
    /\ currentIndex = 1
    /\ history[1].nodes = initialNodes
    /\ history[2].nodes = <<NodeStart, NodeProcessMoved>>
    /\ last.result = <<history[2]>>

(* C7: undo at currentIndex = 0 returns no result and leaves currentIndex, *)
(* historyLength and the stored entries unchanged.                         *)
C7_UndoAtZero ==
    [][(last'.op = "undo" /\ undo /\ currentIndex = 0)
       => /\ last'.result = Null
          /\ UNCHANGED <<history, currentIndex>>]_vars

\* an undo refused at index 0 of a history of several entries
C7_Witness ==
    /\ last.op = "undo"
    /\ last.result = Null
    /\ currentIndex = 0
    /\ Len(history) >= 2

(* C8: redo at the last index returns no result and leaves currentIndex,   *)
(* historyLength and the stored entries unchanged.                         *)
C8_RedoAtTip ==
    [][(last'.op = "redo" /\ redo /\ currentIndex = Len(history) - 1)
       => /\ last'.result = Null
          /\ UNCHANGED <<history, currentIndex>>]_vars

\* a redo refused at the tip of a history of several entries
C8_Witness ==
    /\ last.op = "redo"
    /\ last.result = Null
    /\ Len(history) >= 2
    /\ currentIndex = Len(history) - 1

(* C9: addState with a malformed state (node or edge sequence absent)      *)
(* changes nothing: history, its length, the entries after currentIndex    *)
(* and currentIndex stay as they were, and nothing is thrown.              *)
C9_MalformedIsNoOp ==
    [][(last'.op = "addState" /\ Invalid(Passed) /\ addState(Passed))
       => /\ UNCHANGED <<history, currentIndex, isTransacting>>
          /\ ~last'.threw]_vars

\* a malformed addState made below the tip: the redo entries are still there
C9_Witness ==
    /\ last.op = "addState"
    /\ Invalid(last.arg[1])
    /\ ~last.threw
    /\ Len(history) >= 2
    /\ currentIndex < Len(history) - 1

(* C10: startTransaction, then N updates that call nothing on the manager, *)
(* then endTransaction(finalState) leaves exactly one new entry, equal to  *)
(* finalState, after the entries up to the index the transaction started   *)
(* at (within the cap), and the transaction flag false.                    *)
C10_OneEntryPerTransaction ==
    (gesture.phase = "ended" /\ ~Invalid(last.arg[1]))
    => /\ history = LastOf(Append(SubSeq(gesture.history, 1,
                                         gesture.currentIndex + 1),
                                  last.arg[1]), HistoryLimit)
       /\ Len(history) = Min(gesture.currentIndex + 2, HistoryLimit)
       /\ history[Len(history)] = last.arg[1]
       /\ currentIndex = Len(history) - 1
       /\ ~isTransacting

\* a transaction of two or more updates, ended at the tip with a new state
C10_Witness ==
    /\ gesture.phase = "ended"
    /\ last.op = "endTransaction"
    /\ ~Invalid(last.arg[1])
    /\ gesture.updates >= 2
    /\ Len(gesture.history) >= 1
    /\ gesture.currentIndex = Len(gesture.history) - 1
    /\ Len(history) = Len(gesture.history) + 1
    /\ history[Len(history)] = last.arg[1]
    /\ history[Len(history)] # history[Len(history) - 1]

(* C11, as claimed: while the transaction flag is true no addState adds a  *)
(* history entry; only endTransaction pushes.                              *)
C11_NoPushWhileTransacting ==
    [][(isTransacting /\ last'.op = "addState" /\ addState(Passed))
       => history' = history]_vars

(* C14, as claimed: undo and redo leave the history sequence unchanged and *)
(* move currentIndex by at most one; only addState (alone or called by     *)
(* endTransaction) changes the history sequence, once it has been seeded.  *)
C14_OnlyAddStateWrites ==
    [][/\ ((last'.op = "undo" /\ undo) \/ (last'.op = "redo" /\ redo))
          => history' = history
       /\ (Len(history) > 0 /\ history' # history)
          => last'.op \in {"addState", "endTransaction"}]_vars

(* C14, amended: undo and redo leave the history sequence (its length and  *)
(* every entry) and the flag unchanged; undo leaves currentIndex or        *)
(* lowers it by one, redo leaves it or raises it by one; the history       *)
(* sequence changes only in addState (alone or called by endTransaction)   *)
(* and in initialize.                                                      *)
C14_UndoRedoFrame ==
    [][/\ (last'.op = "undo" /\ undo)
          => /\ history' = history
             /\ isTransacting' = isTransacting
             /\ currentIndex' \in {currentIndex, currentIndex - 1}
       /\ (last'.op = "redo" /\ redo)
          => /\ history' = history
             /\ isTransacting' = isTransacting
             /\ currentIndex' \in {currentIndex, currentIndex + 1}
       /\ history' # history
          => last'.op \in {"addState", "endTransaction", "initialize"}]_vars

\* an undo has stepped back inside a full history, which is still full
C14_Witness ==
    /\ last.op = "undo"
    /\ last.result # Null
    /\ writes > HistoryLimit
    /\ Len(history) = HistoryLimit
    /\ currentIndex = HistoryLimit - 2

(* C15: initialize(state) with a valid state, in any reachable state,      *)
(* leaves exactly one entry, equal to state, and currentIndex = 0.         *)
C15_InitializeResets ==
    [][(last'.op = "initialize" /\ ~Invalid(Passed) /\ initialize(Passed))
       => /\ history' = <<Passed>>
          /\ currentIndex' = 0]_vars

\* initialize called in mid-session, with a transaction open
C15_Witness ==
    /\ last.op = "initialize"
    /\ ~last.threw
    /\ isTransacting
    /\ history = <<last.arg[1]>>
    /\ currentIndex = 0

(* C19: undo and redo do not look at the transaction flag and leave it     *)
(* unchanged: what each returns and where it leaves currentIndex is fixed  *)
(* by the history and currentIndex alone; an undo inside an open           *)
(* transaction followed by endTransaction(state) drops the entries after   *)
(* the lowered index and appends state.                                    *)
C19_FlagIndependent ==
    [][/\ (last'.op = "undo" /\ undo)
          => /\ isTransacting' = isTransacting
             /\ currentIndex' = IF currentIndex > 0 THEN currentIndex - 1
                                                     ELSE currentIndex
             /\ last'.result = IF currentIndex > 0 THEN <<history[currentIndex]>>
                                                    ELSE Null
       /\ (last'.op = "redo" /\ redo)
          => /\ isTransacting' = isTransacting
             /\ currentIndex' = IF currentIndex < Len(history) - 1
                                THEN currentIndex + 1 ELSE currentIndex
             /\ last'.result = IF currentIndex < Len(history) - 1
                                THEN <<history[currentIndex + 2]>> ELSE Null
       /\ (/\ isTransacting
           /\ last.op = "undo"
           /\ undone # <<>>
           /\ last'.op = "endTransaction"
           /\ ~Invalid(Passed)
           /\ endTransaction(Passed))
          => /\ history' = LastOf(Append(SubSeq(undone[1].history, 1,
                                                undone[1].currentIndex),
                                         Passed), HistoryLimit)
             /\ currentIndex' = Len(history') - 1]_vars

\* an undo has stepped back while the transaction flag was true
C19_Witness ==
    /\ isTransacting
    /\ last.op = "undo"
    /\ undone # <<>>
    /\ last.result = <<history[currentIndex + 1]>>
    /\ currentIndex = undone[1].currentIndex - 1

\* What C20 says of one state.
IndexMarksEmpty ==
    /\ currentIndex >= -1
    /\ currentIndex = -1 <=> Len(history) = 0
    /\ Len(history) = 0 <=> writes = 0
    /\ (Len(history) = 0 /\ last.op \in {"undo", "redo"}) => last.result = Null

(* C20: currentIndex >= -1, and it is -1 exactly when the history is       *)
(* empty, which it is only before the first initialize or valid addState;  *)
(* on the empty history undo and redo return nothing and leave              *)
(* currentIndex at -1; a non-empty history never becomes empty again.      *)
C20_EmptyOnlyAtStart ==
    [][/\ IndexMarksEmpty
       /\ IndexMarksEmpty'
       /\ Len(history) > 0 => Len(history') > 0]_vars

\* undo and redo have been refused on the empty history
C20_Witness ==
    /\ Len(history) = 0
    /\ currentIndex = -1
    /\ last.op = "redo"
    /\ last.result = Null

(* C16: a drag gesture of N >= 1 position changes that carry the dragging  *)
(* flag and one drag stop calls startTransaction once, on the first of    *)
(* them, writes nothing while the changes arrive, and writes once, at the  *)
(* stop: the history after the gesture is the history before it with one   *)
(* entry, the diagram at the stop, written at the index.                   *)
C16_OneEntryPerDrag ==
    /\ (drag.phase = "dragging" /\ drag.clean)
       => /\ drag.starts = 1
          /\ drag.adds = 0
          /\ isDragging
          /\ history = drag.history
          /\ currentIndex = drag.currentIndex
    /\ (drag.phase = "stopped" /\ drag.clean)
       => /\ drag.starts = 1
          /\ drag.adds = 1
          /\ ~isDragging
          /\ history = Written(drag.history, drag.currentIndex,
                               [nodes |-> drag.nodes, edges |-> edges])
          /\ currentIndex = WrittenIndex(history)

\* a drag of two moves has stopped and left one entry with the moved node
C16_Witness ==
    /\ drag.phase = "stopped"
    /\ drag.clean
    /\ drag.events >= 2
    /\ Len(drag.history) >= 1
    /\ Len(history) = drag.currentIndex + 2
    /\ history[currentIndex + 1].nodes # drag.history[drag.currentIndex + 1].nodes

(* C17: after an arrow-key move or an edge change handled by the          *)
(* component, the entry at currentIndex equals the live diagram as it is   *)
(* after the edit.                                                         *)
C17_EntryIsLiveState ==
    [][(\/ handler' = "handleEdgesChange"
        \/ handler' = "handleKeyDown" /\ last'.op = "addState")
       => At(history', currentIndex')
             = <<Snapshot([nodes |-> nodes', edges |-> edges'])>>]_vars

\* The positions of the nodes, in order.
Positions(ns) == [i \in 1..Len(ns) |-> ns[i].position]

\* Some entry of h has the nodes where the drag left them.
ContainsDragged(h) ==
    \E k \in 1..Len(h) : Positions(h[k].nodes) = Positions(drag.nodes)

C12_DeepCopyIsolation ==
    [][(got = NoResult /\ handler' \in {"mutateNodeField", "mutateNodePosition"})
       => Stored' = Stored]_vars

(* C13: no in-place write into a snapshot returned by getCurrentState or   *)
(* getTimeline, or into its node list, changes an entry of the stored      *)
(* history.                                                                *)
C13_QueriesReturnCopies ==
    [][handler' \in {"mutateReturned", "mutateReturnedList"}
       => Stored' = Stored]_vars

=============================================================================
